---- MODULE Spec2Model ----
(***************************************************************************)
(* Unit.hpp: compile-time dimensional analysis.                            *)
(*                                                                         *)
(* The library exists in two engine variants in the sources:               *)
(*   - the BaseUnit engine (version 0.3): a unit is a type list of         *)
(*     BaseUnit<BaseSymbol, Exponent, ScaleRatio, Prefix, SubSymbol,       *)
(*     SubToBase, BaseToSub>;                                              *)
(*   - the Dim engine (version 0.2): a unit is a type list of              *)
(*     Dim<Name, Exponent>.                                                *)
(* A unit (a C++ type) is modelled as a sequence of records, a Quantity as *)
(* a record of its unit and its raw_value, and a program using the library *)
(* as two variables x and y on which the library's operators are applied.  *)
(* An operation the compiler refuses is recorded as a rejected outcome.    *)
(*                                                                         *)
(* Spec   : programs over the catalog that keep their results in x; y      *)
(*          holds literals.                                                *)
(* SpecXY : programs over meter and second whose sums and differences take *)
(*          products of the variables as terms (x * y + y * x).            *)
(* SpecConv  : programs that construct a Quantity of one type from an      *)
(*             expression of another (conversions).                        *)
(* SpecScale : programs that form prefixed types and write expressions to  *)
(*             a stream.                                                   *)
(* SpecMath  : programs that call trigonometric functions and compare      *)
(*             expressions.                                                *)
(* SpecArith : programs that apply arithmetic with bare numbers, the math  *)
(*             functions and, in the Dim engine, prefixed literals.        *)
(* SpecMech  : programs over kilogram, meter and second, or over mile and  *)
(*             hour, that keep products and quotients (force = mass *      *)
(*             acceleration, speed = distance / time).                     *)
(* SpecIpow  : one call of extra::ipow, statement by statement.            *)
(***************************************************************************)
EXTENDS Integers, Sequences, FiniteSets, TLC

VARIABLES engine, x, y, last

vars == <<engine, x, y, last>>

(***************************************************************************)
(* Bounds of the model.                                                    *)
(***************************************************************************)
MaxLen == 2
MaxExp == 2
MaxMag == 2

(***************************************************************************)
(* float_t values, kept exact as normalised fractions <<num, den>>.        *)
(***************************************************************************)
Abs(n) == IF n < 0 THEN -n ELSE n

RECURSIVE GCD(_, _)
GCD(a, b) == IF b = 0 THEN a ELSE GCD(b, a % b)

Norm(n, d) ==
    LET g == GCD(Abs(n), Abs(d))
        s == IF d < 0 THEN -1 ELSE 1
    IN  <<(s * n) \div g, (s * d) \div g>>

Num(n) == <<n, 1>>

RMul(a, b) == Norm(a[1] * b[1], a[2] * b[2])

RDiv(a, b) == Norm(a[1] * b[2], a[2] * b[1])

RAdd(a, b) == Norm(a[1] * b[2] + b[1] * a[2], a[2] * b[2])

RSub(a, b) == Norm(a[1] * b[2] - b[1] * a[2], a[2] * b[2])

RNeg(a) == <<-a[1], a[2]>>

(***************************************************************************)
(* BaseUnit engine: descriptors and type lists.                            *)
(***************************************************************************)
BaseUnit(BaseSymbol, Exponent, ScaleRatio, Prefix, SubSymbol, SubToBase, BaseToSub) ==
    [base_symbol |-> BaseSymbol, exp |-> Exponent, scale |-> ScaleRatio,
     prefix |-> Prefix, sub_symbol |-> SubSymbol,
     SubToBase |-> SubToBase, BaseToSub |-> BaseToSub]

\* The members struct BaseUnit declares (the template arguments SubToBase and
\* BaseToSub are part of the type but are no members).
BaseUnitMembers == {"base_symbol", "exp", "sub_symbol", "prefix", "scale"}

is_single_unit(U) == Len(U) = 1

base_type(U) == U[1]

PrependBaseUnit(HeadBaseUnit, U) == <<HeadBaseUnit>> \o U

\* The partial specialisation that merges: every template argument but the
\* exponent is the same in both descriptors.
SameBaseUnitButExponent(a, b) ==
    /\ a.base_symbol = b.base_symbol
    /\ a.scale = b.scale
    /\ a.prefix = b.prefix
    /\ a.sub_symbol = b.sub_symbol
    /\ a.SubToBase = b.SubToBase
    /\ a.BaseToSub = b.BaseToSub

RECURSIVE MultiplyBaseUnitByUnit_KeepZero(_, _)
MultiplyBaseUnitByUnit_KeepZero(NewBaseUnit, CurrentUnit) ==
    IF CurrentUnit = <<>> THEN <<NewBaseUnit>>
    ELSE IF SameBaseUnitButExponent(NewBaseUnit, Head(CurrentUnit))
         THEN <<[Head(CurrentUnit) EXCEPT !.exp = NewBaseUnit.exp + Head(CurrentUnit).exp]>>
              \o Tail(CurrentUnit)
         ELSE PrependBaseUnit(Head(CurrentUnit),
                              MultiplyBaseUnitByUnit_KeepZero(NewBaseUnit, Tail(CurrentUnit)))

RECURSIVE MultiplyBaseUnitByUnit_NoMerge(_, _)
MultiplyBaseUnitByUnit_NoMerge(NewBaseUnit, CurrentUnit) ==
    IF CurrentUnit = <<>> THEN <<NewBaseUnit>>
    ELSE PrependBaseUnit(Head(CurrentUnit),
                         MultiplyBaseUnitByUnit_NoMerge(NewBaseUnit, Tail(CurrentUnit)))

RECURSIVE MultiplyBaseUnitByUnit_BySymbol(_, _)
MultiplyBaseUnitByUnit_BySymbol(NewBaseUnit, CurrentUnit) ==
    IF CurrentUnit = <<>> THEN <<NewBaseUnit>>
    ELSE IF NewBaseUnit.base_symbol = Head(CurrentUnit).base_symbol
         THEN LET sum == NewBaseUnit.exp + Head(CurrentUnit).exp
              IN  IF sum = 0 THEN Tail(CurrentUnit)
                  ELSE <<[Head(CurrentUnit) EXCEPT !.exp = sum]>> \o Tail(CurrentUnit)
         ELSE PrependBaseUnit(Head(CurrentUnit),
                              MultiplyBaseUnitByUnit_BySymbol(NewBaseUnit, Tail(CurrentUnit)))

RECURSIVE MultiplyBaseUnitByUnit_Front(_, _)
MultiplyBaseUnitByUnit_Front(NewBaseUnit, CurrentUnit) ==
    IF \A i \in DOMAIN CurrentUnit : ~SameBaseUnitButExponent(NewBaseUnit, CurrentUnit[i])
    THEN PrependBaseUnit(NewBaseUnit, CurrentUnit)
    ELSE IF SameBaseUnitButExponent(NewBaseUnit, Head(CurrentUnit))
         THEN LET sum == NewBaseUnit.exp + Head(CurrentUnit).exp
              IN  IF sum = 0 THEN Tail(CurrentUnit)
                  ELSE <<[Head(CurrentUnit) EXCEPT !.exp = sum]>> \o Tail(CurrentUnit)
         ELSE PrependBaseUnit(Head(CurrentUnit),
                              MultiplyBaseUnitByUnit_Front(NewBaseUnit, Tail(CurrentUnit)))

RECURSIVE MultiplyBaseUnitByUnit(_, _)
MultiplyBaseUnitByUnit(NewBaseUnit, CurrentUnit) ==
    IF CurrentUnit = <<>> THEN <<NewBaseUnit>>
    ELSE IF SameBaseUnitButExponent(NewBaseUnit, Head(CurrentUnit))
         THEN LET sum == NewBaseUnit.exp + Head(CurrentUnit).exp
              IN  IF sum = 0 THEN Tail(CurrentUnit)
                  ELSE <<[Head(CurrentUnit) EXCEPT !.exp = sum]>> \o Tail(CurrentUnit)
         ELSE PrependBaseUnit(Head(CurrentUnit),
                              MultiplyBaseUnitByUnit(NewBaseUnit, Tail(CurrentUnit)))

MultiplyUnits_HeadOnly(UnitA, UnitB) ==
    IF UnitB = <<>> THEN UnitA
    ELSE MultiplyBaseUnitByUnit(Head(UnitB), UnitA)

RECURSIVE MultiplyUnits_RightToLeft(_, _)
MultiplyUnits_RightToLeft(UnitA, UnitB) ==
    IF UnitB = <<>> THEN UnitA
    ELSE MultiplyUnits_RightToLeft(MultiplyBaseUnitByUnit(UnitB[Len(UnitB)], UnitA),
                                   SubSeq(UnitB, 1, Len(UnitB) - 1))

RECURSIVE MultiplyUnits(_, _)
MultiplyUnits(UnitA, UnitB) ==
    IF UnitB = <<>> THEN UnitA
    ELSE MultiplyUnits(MultiplyBaseUnitByUnit(Head(UnitB), UnitA), Tail(UnitB))

InvertBaseUnit_Keep(D) == D

InvertBaseUnit(D) == [D EXCEPT !.exp = -D.exp]

RECURSIVE InvertUnit(_)
InvertUnit(U) ==
    IF U = <<>> THEN <<>>
    ELSE PrependBaseUnit(InvertBaseUnit(Head(U)), InvertUnit(Tail(U)))

DivideUnits(UnitA, UnitB) == MultiplyUnits(UnitA, InvertUnit(UnitB))

ApplyScaleAccepted_AnyExponent(T) ==
    /\ is_single_unit(T)
    /\ base_type(T).prefix = ""
    /\ base_type(T).scale = Num(1)

\* ApplyScale<Quantity<Unit<BaseUnit<S, 1, OldScale, "", ...>>>, Scalar, NewPrefix>
ApplyScaleAccepted(T) ==
    /\ is_single_unit(T)
    /\ base_type(T).exp = 1
    /\ base_type(T).prefix = ""
    /\ base_type(T).scale = Num(1)

ApplyScale_DefaultSubUnit(T, Scalar, NewPrefix) ==
    <<BaseUnit(base_type(T).base_symbol, 1, RMul(base_type(T).scale, Scalar), NewPrefix,
               base_type(T).base_symbol, "return_self", "return_self")>>

ApplyScale(T, Scalar, NewPrefix) ==
    <<[base_type(T) EXCEPT !.scale = RMul(base_type(T).scale, Scalar),
                           !.prefix = NewPrefix]>>

(***************************************************************************)
(* Dim engine: descriptors and type lists.                                 *)
(***************************************************************************)
Dim(Name, Exponent) == [name |-> Name, exp |-> Exponent]

Prepend(T, U) == <<T>> \o U

RECURSIVE AddDimToUnit(_, _)
AddDimToUnit(NewDim, CurrentUnit) ==
    IF CurrentUnit = <<>> THEN <<NewDim>>
    ELSE IF NewDim.name = Head(CurrentUnit).name
         THEN LET sum == NewDim.exp + Head(CurrentUnit).exp
              IN  IF sum = 0 THEN Tail(CurrentUnit)
                  ELSE <<Dim(NewDim.name, sum)>> \o Tail(CurrentUnit)
         ELSE Prepend(Head(CurrentUnit), AddDimToUnit(NewDim, Tail(CurrentUnit)))

RECURSIVE Dim_MultiplyUnits(_, _)
Dim_MultiplyUnits(UnitA, UnitB) ==
    IF UnitB = <<>> THEN UnitA
    ELSE Dim_MultiplyUnits(AddDimToUnit(Head(UnitB), UnitA), Tail(UnitB))

InvertDim(D) == Dim(D.name, -D.exp)

RECURSIVE Dim_InvertUnit(_)
Dim_InvertUnit(U) ==
    IF U = <<>> THEN <<>>
    ELSE Prepend(InvertDim(Head(U)), Dim_InvertUnit(Tail(U)))

Dim_DivideUnits(UnitA, UnitB) == Dim_MultiplyUnits(UnitA, Dim_InvertUnit(UnitB))

(***************************************************************************)
(* The catalog (namespace defaults), the part of it the model instantiates.*)
(***************************************************************************)
\* __unithpp_BASE_NOSCALE(NAME, SHORT): Unit<BaseUnit<#SHORT>>
BASE_NOSCALE(SHORT) ==
    <<BaseUnit(SHORT, 1, Num(1), "", SHORT, "return_self", "return_self")>>

\* __unithpp_SUB_NOSCALE(NAME, ORIGIN, SUB_SYMBOL, ...): the base symbol is the
\* stringised ORIGIN argument, the conversion functions are named after NAME.
SUB_NOSCALE(NAME, ORIGIN, SUB_SYMBOL) ==
    <<BaseUnit(ORIGIN, 1, Num(1), "", SUB_SYMBOL, "__s2b__" \o NAME, "__b2s__" \o NAME)>>

\* __unithpp_SCALE(kilo, k): kilo<Q> = ApplyScale<Q, std::kilo, "k">::type
kilo(Q) == ApplyScale(Q, Num(1000), "k")

meter == BASE_NOSCALE("m")

second == BASE_NOSCALE("s")

mile == SUB_NOSCALE("mile", "m", "mi")

kilometer == kilo(meter)

mile_per_second == DivideUnits(mile, second)

\* The named Quantity types of the BaseUnit engine a program can write down.
Catalog == {meter, second, mile, kilometer, mile_per_second}

\* Dim engine: __unithpp_def_op_num_new(ret, name, sym)
Dim_meter == <<Dim("m", 1)>>

Dim_second == <<Dim("s", 1)>>

Dim_meter_per_second == Dim_DivideUnits(Dim_meter, Dim_second)

Dim_Catalog == {Dim_meter, Dim_second, Dim_meter_per_second}

Engines == {"BaseUnit", "Dim"}

CatalogOf(e) == IF e = "BaseUnit" THEN Catalog ELSE Dim_Catalog

\* The two base units the programs of SpecXY use.
PairCatalogOf(e) == IF e = "BaseUnit" THEN {meter, second} ELSE {Dim_meter, Dim_second}

\* The magnitudes a literal is written with.
LitMags == {Num(1)}

(***************************************************************************)
(* Values of a program: Quantities, bare numbers, and the outcome of an    *)
(* expression the compiler rejects.                                        *)
(***************************************************************************)
Quantity(ThisUnit, v) == [kind |-> "Quantity", unit |-> ThisUnit, raw_value |-> v]

Number(v) == [kind |-> "number", raw_value |-> v]

Rejected(why) == [kind |-> "rejected", why |-> why]

NoValue == [kind |-> "none"]

IsQuantity(v) == v.kind = "Quantity"

IsNumber(v) == v.kind = "number"

IsRejected(v) == v.kind = "rejected"

EngMultiplyUnits(e, A, B) ==
    IF e = "BaseUnit" THEN MultiplyUnits(A, B) ELSE Dim_MultiplyUnits(A, B)

EngDivideUnits(e, A, B) ==
    IF e = "BaseUnit" THEN DivideUnits(A, B) ELSE Dim_DivideUnits(A, B)

EngInvertUnit(e, A) ==
    IF e = "BaseUnit" THEN InvertUnit(A) ELSE Dim_InvertUnit(A)

\* Quantity::operator*(const Quantity<OtherUnit>&), Quantity::operator*(long double),
\* operator*(long double, const Quantity&), and the built-in product of two numbers.
OpMul(e, a, b) ==
    IF IsQuantity(a) /\ IsQuantity(b)
    THEN LET ResultUnit == EngMultiplyUnits(e, a.unit, b.unit)
         IN  IF ResultUnit = <<>>
             THEN Number(RMul(a.raw_value, b.raw_value))
             ELSE Quantity(ResultUnit, RMul(a.raw_value, b.raw_value))
    ELSE IF IsQuantity(a) THEN Quantity(a.unit, RMul(a.raw_value, b.raw_value))
    ELSE IF IsQuantity(b) THEN Quantity(b.unit, RMul(a.raw_value, b.raw_value))
    ELSE Number(RMul(a.raw_value, b.raw_value))

OpDiv_NoCollapse(e, a, b) ==
    IF IsQuantity(a) /\ IsQuantity(b)
    THEN Quantity(EngDivideUnits(e, a.unit, b.unit), RDiv(a.raw_value, b.raw_value))
    ELSE IF IsQuantity(a) THEN Quantity(a.unit, RDiv(a.raw_value, b.raw_value))
    ELSE IF IsQuantity(b)
         THEN Quantity(EngInvertUnit(e, b.unit), RDiv(a.raw_value, b.raw_value))
    ELSE Number(RDiv(a.raw_value, b.raw_value))

OpDiv_NumberKeepsUnit(e, a, b) ==
    IF IsQuantity(a) /\ IsQuantity(b)
    THEN LET ResultUnit == EngDivideUnits(e, a.unit, b.unit)
         IN  IF ResultUnit = <<>>
             THEN Number(RDiv(a.raw_value, b.raw_value))
             ELSE Quantity(ResultUnit, RDiv(a.raw_value, b.raw_value))
    ELSE IF IsQuantity(a) THEN Quantity(a.unit, RDiv(a.raw_value, b.raw_value))
    ELSE IF IsQuantity(b) THEN Quantity(b.unit, RDiv(a.raw_value, b.raw_value))
    ELSE Number(RDiv(a.raw_value, b.raw_value))

\* Quantity::operator/(const Quantity<OtherUnit>&), Quantity::operator/(long double),
\* operator/(long double, const Quantity&), and the built-in quotient of two numbers.
OpDiv(e, a, b) ==
    IF IsQuantity(a) /\ IsQuantity(b)
    THEN LET ResultUnit == EngDivideUnits(e, a.unit, b.unit)
         IN  IF ResultUnit = <<>>
             THEN Number(RDiv(a.raw_value, b.raw_value))
             ELSE Quantity(ResultUnit, RDiv(a.raw_value, b.raw_value))
    ELSE IF IsQuantity(a) THEN Quantity(a.unit, RDiv(a.raw_value, b.raw_value))
    ELSE IF IsQuantity(b)
         THEN Quantity(EngInvertUnit(e, b.unit), RDiv(a.raw_value, b.raw_value))
    ELSE Number(RDiv(a.raw_value, b.raw_value))

\* An argument of type From binds to a parameter `const Quantity<To>&` only when
\* the types are the same: both constructors taking another type are explicit.
BindsTo_Implicit(From, To) ==
    \/ From = To
    \/ /\ Len(From) = 1 /\ Len(To) = 1
       /\ From[1].exp = To[1].exp
       /\ IF "base_symbol" \in DOMAIN From[1]
          THEN From[1].base_symbol = To[1].base_symbol
          ELSE From[1].name = To[1].name

BindsTo(From, To) == From = To

\* Quantity::operator+(const Quantity&) and the built-in sum of two numbers.
OpAdd(a, b) ==
    IF IsQuantity(a) /\ IsQuantity(b)
    THEN IF BindsTo(b.unit, a.unit)
         THEN Quantity(a.unit, RAdd(a.raw_value, b.raw_value))
         ELSE Rejected("no match for operator+")
    ELSE IF IsNumber(a) /\ IsNumber(b) THEN Number(RAdd(a.raw_value, b.raw_value))
    ELSE Rejected("no match for operator+")

\* Quantity::operator-(const Quantity&) and the built-in difference of two numbers.
OpSub(a, b) ==
    IF IsQuantity(a) /\ IsQuantity(b)
    THEN IF BindsTo(b.unit, a.unit)
         THEN Quantity(a.unit, RSub(a.raw_value, b.raw_value))
         ELSE Rejected("no match for operator-")
    ELSE IF IsNumber(a) /\ IsNumber(b) THEN Number(RSub(a.raw_value, b.raw_value))
    ELSE Rejected("no match for operator-")

\* extra::ipow: square-and-multiply over the binary digits of |exp|.
RECURSIVE ipow_loop(_, _, _)
ipow_loop(res, base, exp) ==
    IF exp > 0
    THEN ipow_loop(IF exp % 2 = 1 THEN RMul(res, base) ELSE res, RMul(base, base), exp \div 2)
    ELSE res

ipow(base, exp) ==
    IF exp < 0 THEN ipow_loop(Num(1), RDiv(Num(1), base), -exp)
    ELSE ipow_loop(Num(1), base, exp)

\* The requires-clause of the converting constructor.
ConvertRequires_NoExp(ThisUnit, OtherUnit) ==
    /\ is_single_unit(ThisUnit)
    /\ is_single_unit(OtherUnit)
    /\ base_type(ThisUnit).base_symbol = base_type(OtherUnit).base_symbol

ConvertRequires(ThisUnit, OtherUnit) ==
    /\ is_single_unit(ThisUnit)
    /\ is_single_unit(OtherUnit)
    /\ base_type(ThisUnit).base_symbol = base_type(OtherUnit).base_symbol
    /\ base_type(ThisUnit).exp = base_type(OtherUnit).exp

ConvertBody_SubRatioDeclared(ThisUnit, rhs) ==
    LET TargetBase == base_type(ThisUnit)
        SourceBase == base_type(rhs.unit)
        factor == RDiv(SourceBase.scale, TargetBase.scale)
    IN  Quantity(ThisUnit, RMul(rhs.raw_value, ipow(factor, TargetBase.exp)))

\* The body of the converting constructor. It names SourceBase::scale and
\* SourceBase::sub_ratio; a name struct BaseUnit does not declare makes the
\* instantiation ill-formed.
ConvertBody(ThisUnit, rhs) ==
    IF {"scale", "sub_ratio", "exp"} \subseteq BaseUnitMembers
    THEN LET TargetBase == base_type(ThisUnit)
             SourceBase == base_type(rhs.unit)
             SourceFactor == RMul(SourceBase.scale, SourceBase.sub_ratio)
             TargetFactor == RMul(TargetBase.scale, TargetBase.sub_ratio)
             factor == RDiv(SourceFactor, TargetFactor)
         IN  Quantity(ThisUnit, RMul(rhs.raw_value, ipow(factor, TargetBase.exp)))
    ELSE Rejected("no type named sub_ratio in BaseUnit")

\* Direct initialisation ThisUnit-Quantity(a): the explicit constructor from a
\* value, the implicit copy constructor, or the converting constructor
\* (BaseUnit engine only).
Construct(e, ThisUnit, a) ==
    IF IsNumber(a) THEN Quantity(ThisUnit, a.raw_value)
    ELSE IF a.unit = ThisUnit THEN a
    ELSE IF e = "BaseUnit"
         THEN IF ConvertRequires(ThisUnit, a.unit)
              THEN ConvertBody(ThisUnit, a)
              ELSE Rejected("constraints not satisfied")
         ELSE Rejected("no matching constructor")

(***************************************************************************)
(* The program: two variables, and the last expression evaluated.          *)
(***************************************************************************)
InRange(v) == Abs(v[1]) <= MaxMag /\ v[2] <= MaxMag

UnitFits(U) == Len(U) <= MaxLen /\ \A i \in DOMAIN U : Abs(U[i].exp) <= MaxExp

Fits(v) ==
    IF IsQuantity(v) THEN UnitFits(v.unit) /\ InRange(v.raw_value)
    ELSE IF IsNumber(v) THEN InRange(v.raw_value)
    ELSE TRUE

Outcome(op, a, b, T, out) ==
    [op |-> op, lhs |-> a, rhs |-> b, target |-> T, out |-> out]

InitOver(cat) ==
    /\ \E c \in cat, m \in LitMags : x = Quantity(c, m)
    /\ \E c \in cat, m \in LitMags : y = Quantity(c, m)
    /\ last = Outcome("init", NoValue, NoValue, NoValue, NoValue)

Init == engine \in Engines /\ InitOver(CatalogOf(engine))

InitXY == engine \in Engines /\ InitOver(PairCatalogOf(engine))

\* auto dst = <expression>; a rejected expression leaves the program as it was.
Assign(dst, op, a, b, T, out) ==
    /\ Fits(out)
    /\ x' = IF dst = "x" /\ ~IsRejected(out) THEN out ELSE x
    /\ y' = IF dst = "y" /\ ~IsRejected(out) THEN out ELSE y
    /\ last' = Outcome(op, a, b, T, out)
    /\ UNCHANGED engine

\* dst = 1.0_mi and the like
LiteralTo(dst, cat) ==
    \E c \in cat, m \in LitMags :
        Assign(dst, "literal", NoValue, NoValue, NoValue, Quantity(c, m))

\* dst = 1.0
NumberTo(dst) ==
    \E m \in LitMags : Assign(dst, "literal", NoValue, NoValue, NoValue, Number(m))

MulTo(dst) ==
    \E a \in {x, y}, b \in {x, y} : Assign(dst, "mul", a, b, NoValue, OpMul(engine, a, b))

DivTo(dst) ==
    \E a \in {x, y}, b \in {x, y} :
        /\ b.raw_value # Num(0)
        /\ Assign(dst, "div", a, b, NoValue, OpDiv(engine, a, b))

AddTo(dst) ==
    \E a \in {x, y}, b \in {x, y} : Assign(dst, "add", a, b, NoValue, OpAdd(a, b))

SubTo(dst) ==
    \E a \in {x, y}, b \in {x, y} : Assign(dst, "sub", a, b, NoValue, OpSub(a, b))

ConvertTo(dst, cat) ==
    \E T \in cat, a \in {x, y} :
        Assign(dst, "construct", a, NoValue, T, Construct(engine, T, a))

LiteralX == LiteralTo("x", CatalogOf(engine))

LiteralY == LiteralTo("y", CatalogOf(engine))

NumberY == NumberTo("y")

Mul == MulTo("x")

Div == DivTo("x")

Add == AddTo("x")

Sub == SubTo("x")

Convert == ConvertTo("x", CatalogOf(engine))

Next == LiteralX \/ LiteralY \/ NumberY \/ Mul \/ Div \/ Add \/ Sub \/ Convert

Spec == Init /\ [][Next]_vars

LiteralXY == \E dst \in {"x", "y"} : LiteralTo(dst, PairCatalogOf(engine))

\* the terms of a sum: a variable, or the temporary of a product of variables
Terms == {x, y} \cup {OpMul(engine, a, b) : a \in {x, y}, b \in {x, y}}

\* x = x * y + y * x and the like
AddXY == \E a \in Terms, b \in Terms : Assign("x", "add", a, b, NoValue, OpAdd(a, b))

SubXY == \E a \in Terms, b \in Terms : Assign("x", "sub", a, b, NoValue, OpSub(a, b))

NextXY == LiteralXY \/ Mul \/ AddXY \/ SubXY

SpecXY == InitXY /\ [][NextXY]_vars

(***************************************************************************)
(* Vocabulary of the properties.                                           *)
(***************************************************************************)
Range(U) == {U[i] : i \in DOMAIN U}

\* A descriptor without its exponent: the base symbol and, in the BaseUnit
\* engine, scale, prefix, display symbol and conversion functions.
Ident(d) == [d EXCEPT !.exp = 0]

Idents(U) == {Ident(U[i]) : i \in DOMAIN U}

SymbolOf(d) == IF "base_symbol" \in DOMAIN d THEN d.base_symbol ELSE d.name

Symbols(U) == {SymbolOf(U[i]) : i \in DOMAIN U}

Pairs(U) == {<<SymbolOf(U[i]), U[i].exp>> : i \in DOMAIN U}

\* the exponent a unit gives a base symbol, absence counted as 0
RECURSIVE exponent_in(_, _)
exponent_in(U, s) ==
    IF U = <<>> THEN 0
    ELSE (IF SymbolOf(Head(U)) = s THEN Head(U).exp ELSE 0) + exponent_in(Tail(U), s)

\* the exponent a unit gives a descriptor identity, absence counted as 0
RECURSIVE ExpOfIdent(_, _)
ExpOfIdent(U, id) ==
    IF U = <<>> THEN 0
    ELSE (IF Ident(Head(U)) = id THEN Head(U).exp ELSE 0) + ExpOfIdent(Tail(U), id)

\* the unit of an outcome; a bare number has the empty unit
UnitOf(v) == IF IsQuantity(v) THEN v.unit ELSE <<>>

BothQuantities == IsQuantity(last.lhs) /\ IsQuantity(last.rhs)

IsMulOfQuantities == last.op = "mul" /\ BothQuantities

IsAddSubOfQuantities == last.op \in {"add", "sub"} /\ BothQuantities

(***************************************************************************)
(* C1. Adding or subtracting two Quantities is accepted only when both     *)
(* operands have the same descriptors (base symbol, exponent, scale,       *)
(* prefix, display symbol, conversion functions); every other pair is      *)
(* rejected, and an accepted sum or difference is computed on the raw      *)
(* values with no conversion. add(meter, second) and add(meter, mile) are  *)
(* rejected.                                                               *)
(***************************************************************************)
C1_AddSubOnlyIdenticalUnits ==
    IsAddSubOfQuantities =>
        /\ Range(last.lhs.unit) # Range(last.rhs.unit) => IsRejected(last.out)
        /\ ~IsRejected(last.out) =>
              /\ last.lhs.unit = last.rhs.unit
              /\ last.out.unit = last.lhs.unit
              /\ last.out.raw_value =
                    IF last.op = "add"
                    THEN RAdd(last.lhs.raw_value, last.rhs.raw_value)
                    ELSE RSub(last.lhs.raw_value, last.rhs.raw_value)

C1_Witness_MeterPlusMileRejected ==
    /\ engine = "BaseUnit"
    /\ last.op = "add"
    /\ BothQuantities
    /\ last.lhs.unit = meter
    /\ last.rhs.unit = mile
    /\ IsRejected(last.out)

(***************************************************************************)
(* C2. Closure: for every unit A a program reaches, multiply(A, invert(A)) *)
(* is the empty unit, and dividing a Quantity by one of the same unit      *)
(* gives a bare number.                                                    *)
(***************************************************************************)
C2_Closure ==
    /\ \A v \in {x, y} :
          IsQuantity(v) =>
              EngMultiplyUnits(engine, v.unit, EngInvertUnit(engine, v.unit)) = <<>>
    /\ (last.op = "div" /\ BothQuantities /\ last.lhs.unit = last.rhs.unit)
          => IsNumber(last.out)

C2_Witness_SubAndPrefixedUnitCancels ==
    /\ engine = "BaseUnit"
    /\ last.op = "div"
    /\ BothQuantities
    /\ last.lhs.unit = <<mile[1], kilometer[1]>>
    /\ last.rhs.unit = last.lhs.unit
    /\ IsNumber(last.out)

OnceIn(U, s) == Cardinality({k \in DOMAIN U : SymbolOf(U[k]) = s}) = 1

\* A[i] and B[j] have the same base symbol, held once in A and once in B, and
\* different metadata
SameSymbolOtherMetadata(A, i, B, j) ==
    /\ A[i].base_symbol = B[j].base_symbol
    /\ Ident(A[i]) # Ident(B[j])
    /\ OnceIn(A, A[i].base_symbol)
    /\ OnceIn(B, B[j].base_symbol)

IndexOf(U, d) == CHOOSE k \in DOMAIN U : U[k] = d

ComputedUnit ==
    IF last.op = "mul"
    THEN EngMultiplyUnits(engine, last.lhs.unit, last.rhs.unit)
    ELSE EngDivideUnits(engine, last.lhs.unit, last.rhs.unit)

C6_NoZeroExponent ==
    /\ \A v \in {x, y, last.out} :
          IsQuantity(v) => \A i \in DOMAIN v.unit : v.unit[i].exp # 0
    /\ (last.op \in {"mul", "div"} /\ BothQuantities) =>
          ((\A i \in DOMAIN ComputedUnit : ComputedUnit[i].exp = 0) <=> ComputedUnit = <<>>)

C6_Witness_CancelledDescriptorDropped ==
    /\ engine = "BaseUnit"
    /\ IsMulOfQuantities
    /\ last.lhs.unit = mile_per_second
    /\ last.rhs.unit = second
    /\ UnitOf(last.out) = mile

(***************************************************************************)
(* C7. Associativity of multiply: multiply(multiply(A, B), C) and          *)
(* multiply(A, multiply(B, C)) hold the same (base symbol, exponent)       *)
(* pairs. The operands of a product and every catalog unit are taken as    *)
(* A, B and C in each of the three positions.                              *)
(***************************************************************************)
Assoc(A, B, C) ==
    Pairs(EngMultiplyUnits(engine, EngMultiplyUnits(engine, A, B), C))
        = Pairs(EngMultiplyUnits(engine, A, EngMultiplyUnits(engine, B, C)))

C7_MultiplyAssociative ==
    IsMulOfQuantities =>
        \A C \in CatalogOf(engine) :
            /\ Assoc(last.lhs.unit, last.rhs.unit, C)
            /\ Assoc(last.lhs.unit, C, last.rhs.unit)
            /\ Assoc(C, last.lhs.unit, last.rhs.unit)

C7_Witness_CompoundOperands ==
    /\ engine = "BaseUnit"
    /\ IsMulOfQuantities
    /\ last.lhs.unit = <<mile[1], second[1]>>
    /\ last.rhs.unit = mile_per_second
    /\ UnitOf(last.out) = <<[mile[1] EXCEPT !.exp = 2]>>

(***************************************************************************)
(* C8. Dimensionless collapse: the product or quotient of two Quantities   *)
(* is a bare number exactly when every descriptor's exponents cancel (the  *)
(* resulting unit is empty) and is otherwise a Quantity of the resulting   *)
(* unit; its magnitude is the product, respectively quotient, of the       *)
(* operands' magnitudes.                                                   *)
(***************************************************************************)
NetExponent(d) ==
    IF last.op = "mul"
    THEN ExpOfIdent(last.lhs.unit, d) + ExpOfIdent(last.rhs.unit, d)
    ELSE ExpOfIdent(last.lhs.unit, d) - ExpOfIdent(last.rhs.unit, d)

AllCancel ==
    \A d \in Idents(last.lhs.unit) \cup Idents(last.rhs.unit) : NetExponent(d) = 0

C8_DimensionlessCollapse ==
    (last.op \in {"mul", "div"} /\ BothQuantities) =>
        /\ IsNumber(last.out) <=> AllCancel
        /\ ~AllCancel => (IsQuantity(last.out) /\ last.out.unit = ComputedUnit)
        /\ last.out.raw_value =
              IF last.op = "mul"
              THEN RMul(last.lhs.raw_value, last.rhs.raw_value)
              ELSE RDiv(last.lhs.raw_value, last.rhs.raw_value)

C8_Witness_SpeedOverSpeedIsNumber ==
    /\ last.op = "div"
    /\ BothQuantities
    /\ Len(last.lhs.unit) = 2
    /\ last.rhs.unit = last.lhs.unit
    /\ last.lhs.raw_value = Num(2)
    /\ last.rhs.raw_value = Num(1)
    /\ last.out = Number(Num(2))

(***************************************************************************)
(* C9 as stated. Unit equality ignores descriptor order: add and sub are   *)
(* legal between two Quantities whose units hold the same descriptors in a *)
(* different stored order (meter x second and second x meter).             *)
(***************************************************************************)
C9_Stated_OrderIgnored ==
    (IsAddSubOfQuantities /\ Range(last.lhs.unit) = Range(last.rhs.unit))
        => ~IsRejected(last.out)

(***************************************************************************)
(* C10. The converting constructor rejects, by its constraints and without *)
(* a value, every source/target pair in which either unit is not a single  *)
(* descriptor, or the two descriptors differ in base symbol or exponent.   *)
(***************************************************************************)
ConvertingConstructorChosen ==
    /\ engine = "BaseUnit"
    /\ last.op = "construct"
    /\ IsQuantity(last.lhs)
    /\ last.lhs.unit # last.target

SUB_RATIO_s2b(NUM, DEN, v) == RMul(RDiv(Num(NUM), Num(DEN)), v)

SUB_RATIO_b2s(NUM, DEN, v) == RMul(RDiv(Num(DEN), Num(NUM)), v)

\* namespace temp_functions, and extra::return_self: the value a conversion
\* function of the catalog returns. degrees is declared with the ratio
\* 3141592653589793238 / 180000000000000000, kept here to seven digits.
temp_functions(f, v) ==
    CASE f = "return_self"      -> v
      [] f = "__s2b__mile"      -> SUB_RATIO_s2b(1609344, 1000, v)
      [] f = "__b2s__mile"      -> SUB_RATIO_b2s(1609344, 1000, v)
      [] f = "__s2b__hour"      -> SUB_RATIO_s2b(3600, 1, v)
      [] f = "__b2s__hour"      -> SUB_RATIO_b2s(3600, 1, v)
      [] f = "__s2b__degrees"   -> SUB_RATIO_s2b(3141593, 180000000, v)
      [] f = "__b2s__degrees"   -> SUB_RATIO_b2s(3141593, 180000000, v)
      [] f = "__s2b__celsius"   -> RAdd(v, Norm(27315, 100))
      [] f = "__b2s__celsius"   -> RSub(v, Norm(27315, 100))

hour == SUB_NOSCALE("hour", "s", "hr")

kelvin == BASE_NOSCALE("K")

\* __unithpp_SUB(celsius, kelvin, degC, ...): ORIGIN is the type name kelvin
celsius == SUB_NOSCALE("celsius", "kelvin", "degC")

meter_per_second == DivideUnits(meter, second)

\* decltype(kelvin{} * kelvin{})
square_kelvin == MultiplyUnits(kelvin, kelvin)

\* decltype(kilo<celsius>{} * kilo<celsius>{})
square_kilocelsius == MultiplyUnits(kilo(celsius), kilo(celsius))

\* The Quantity types the programs of SpecConv declare their variables with.
ConvCatalog == {meter, kilometer, mile, second, hour, kelvin, celsius, kilo(celsius)}

\* The types they construct from an expression.
ConvTargets == ConvCatalog \cup {meter_per_second, square_kelvin, square_kilocelsius}

\* The magnitudes their literals are written with (0.0_degC, 1.0_hr, 60.0_mi).
ConvMags == {Num(0), Num(1), Num(60)}

InitConv ==
    /\ engine = "BaseUnit"
    /\ \E c \in ConvCatalog, m \in ConvMags : x = Quantity(c, m)
    /\ \E c \in ConvCatalog, m \in ConvMags : y = Quantity(c, m)
    /\ last = Outcome("init", NoValue, NoValue, NoValue, NoValue)

\* auto r = <expression>; r is the outcome, the variables stay as they are.
Observe(op, a, b, T, out) ==
    /\ last' = Outcome(op, a, b, T, out)
    /\ UNCHANGED <<engine, x, y>>

LiteralConv ==
    \E dst \in {"x", "y"}, c \in ConvCatalog, m \in ConvMags :
        /\ x' = IF dst = "x" THEN Quantity(c, m) ELSE x
        /\ y' = IF dst = "y" THEN Quantity(c, m) ELSE y
        /\ last' = Outcome("literal", NoValue, NoValue, NoValue, Quantity(c, m))
        /\ UNCHANGED engine

\* the expressions a construction takes: a variable, x * x, or x / y
ConvTerms ==
    {x, y, OpMul(engine, x, x)}
        \cup (IF y.raw_value # Num(0) THEN {OpDiv(engine, x, y)} ELSE {})

\* T r(a);
ConvertConv ==
    \E a \in ConvTerms, T \in ConvTargets :
        Observe("construct", a, NoValue, T, Construct(engine, T, a))

NextConv == LiteralConv \/ ConvertConv

SpecConv == InitConv /\ [][NextConv]_vars

(***************************************************************************)
(* Vocabulary of the properties about conversions.                         *)
(***************************************************************************)
\* a descriptor whose conversion to the base unit is a pure ratio (no shift)
PureRatio(d) == temp_functions(d.SubToBase, Num(0)) = Num(0)

\* the sub-unit ratio of a pure-ratio descriptor: base units per sub-unit
SubUnitRatio(d) == temp_functions(d.SubToBase, Num(1))

\* the converting constructor is chosen for a source and a target that are
\* single descriptors of the same base symbol and the same exponent
LegalConversion ==
    /\ ConvertingConstructorChosen
    /\ Len(last.lhs.unit) = 1
    /\ Len(last.target) = 1
    /\ last.lhs.unit[1].base_symbol = last.target[1].base_symbol
    /\ last.lhs.unit[1].exp = last.target[1].exp

(***************************************************************************)
(* C11 as stated. For every legal conversion between pure-ratio units      *)
(* (single descriptor, same base symbol, same exponent e) the result is a  *)
(* Quantity of the target unit with magnitude source.magnitude * F^e,      *)
(* F = (source.scale * source sub-unit ratio) / (target.scale * target     *)
(* sub-unit ratio): 1 kilometer converts to 1000 meter.                    *)
(***************************************************************************)
C11_Stated_ConversionFactor ==
    (LegalConversion /\ PureRatio(last.lhs.unit[1]) /\ PureRatio(last.target[1])) =>
        LET S == last.lhs.unit[1]
            T == last.target[1]
            F == RDiv(RMul(S.scale, SubUnitRatio(S)), RMul(T.scale, SubUnitRatio(T)))
        IN  last.out = Quantity(last.target, RMul(last.lhs.raw_value, ipow(F, T.exp)))

(***************************************************************************)
(* C12 as stated. Ratio round trip: converting a Quantity of a ratio-based *)
(* sub-unit (mile) to its base unit (meter) and the result back to the     *)
(* sub-unit reproduces the Quantity.                                       *)
(***************************************************************************)
IsBaseDescriptor(d) ==
    d.scale = Num(1) /\ d.prefix = "" /\ d.SubToBase = "return_self"

IsRatioSubDescriptor(d) ==
    d.scale = Num(1) /\ d.prefix = "" /\ d.SubToBase # "return_self" /\ PureRatio(d)

C12_Stated_RatioRoundTrip ==
    (LegalConversion /\ IsRatioSubDescriptor(last.lhs.unit[1])
                     /\ IsBaseDescriptor(last.target[1])) =>
        /\ IsQuantity(last.out)
        /\ Construct(engine, last.lhs.unit, last.out) = last.lhs

(***************************************************************************)
(* C13 as stated. Affine conversion: constructing a kelvin Quantity from   *)
(* 0 celsius is accepted and yields 273.15 kelvin (the shift of the        *)
(* descriptor's to-base function is applied), and constructing a celsius   *)
(* Quantity from that result yields 0 celsius.                             *)
(***************************************************************************)
C13_Stated_CelsiusToKelvin ==
    (last.op = "construct" /\ last.lhs = Quantity(celsius, Num(0)) /\ last.target = kelvin) =>
        /\ last.out = Quantity(kelvin, Norm(27315, 100))
        /\ Construct(engine, celsius, last.out) = Quantity(celsius, Num(0))

C20_Stated_SpeedConverts ==
    (/\ last.op = "construct"
     /\ last.lhs = OpDiv(engine, Quantity(mile, Num(60)), Quantity(hour, Num(1)))
     /\ last.target = meter_per_second)
        => /\ last.lhs.unit = <<mile[1], InvertBaseUnit(hour[1])>>
           /\ last.out = Quantity(meter_per_second, Norm(268224, 10000))

(***************************************************************************)
(* Prefixes and text output. SpecScale: programs that declare a variable   *)
(* of a prefixed type of an expression (kilo<decltype(x * y)> r(1.0)) and  *)
(* write expressions to a stream (std::cout << x / y).                     *)
(***************************************************************************)
\* __unithpp_SCALE(NAME, SYMBOL): the arguments std::NAME and #SYMBOL of the
\* alias templates kilo and deci
Scales == {[NAME |-> "kilo", Scalar |-> Num(1000), SYMBOL |-> "k"],
           [NAME |-> "deci", Scalar |-> Norm(1, 10), SYMBOL |-> "d"]}

\* NAME<decltype(a)> r(v): the alias names ApplyScale<decltype(a), std::NAME,
\* SYMBOL>::type; the primary template and the specialisation each hold a
\* static_assert. Only the BaseUnit engine has the alias templates.
Scaled(e, a, p, v) ==
    IF e # "BaseUnit" THEN Rejected("no template named " \o p.NAME)
    ELSE IF IsQuantity(a) /\ ApplyScaleAccepted(a.unit)
         THEN Quantity(ApplyScale(a.unit, p.Scalar, p.SYMBOL), v)
         ELSE Rejected("static assertion failed")

\* extra::print_base_unit: the characters it inserts
print_base_unit(d) ==
    IF d.exp = 0 THEN ""
    ELSE d.prefix \o d.sub_symbol \o (IF d.exp # 1 THEN "^" \o ToString(d.exp) ELSE "")

\* extra::print_single_dim (Dim engine)
print_single_dim(D) ==
    D.name \o (IF D.exp # 1 THEN "^" \o ToString(D.exp) ELSE "")

print_unit_impl_TrailingMarker(e, U) ==
    LET f[n \in 0..Len(U)] ==
            IF n = 0 THEN ""
            ELSE f[n - 1]
                   \o (IF e = "BaseUnit" THEN print_base_unit(U[n]) ELSE print_single_dim(U[n]))
                   \o "*"
    IN  f[Len(U)]

\* extra::print_unit_impl of either engine: the fold over the descriptors,
\* n counting the descriptors printed so far
print_unit_impl(e, U) ==
    LET f[n \in 0..Len(U)] ==
            IF n = 0 THEN ""
            ELSE f[n - 1]
                   \o (IF e = "BaseUnit" THEN print_base_unit(U[n]) ELSE print_single_dim(U[n]))
                   \o (IF n < Len(U) THEN "*" ELSE "")
    IN  f[Len(U)]

\* What a stream receives: the value, formatted by the stream itself, and the
\* characters inserted after it.
Output(v, text) == [kind |-> "output", value |-> v, text |-> text]

\* operator<<(std::ostream&, const Quantity&), and the stream's own operator<<
\* for a number
Stream(e, q) ==
    IF IsQuantity(q)
    THEN Output(q.raw_value,
                IF q.unit # <<>> THEN " " \o print_unit_impl(e, q.unit) ELSE "")
    ELSE Output(q.raw_value, "")

ScaleCatalogOf(e) ==
    IF e = "BaseUnit" THEN {meter, second, mile, kilometer} ELSE {Dim_meter, Dim_second}

InitScale == engine \in Engines /\ InitOver(ScaleCatalogOf(engine))

LiteralScale == \E dst \in {"x", "y"} : LiteralTo(dst, ScaleCatalogOf(engine))

\* the expressions of SpecScale: a variable, a product or quotient of
\* variables, and Quantity<extra::Unit<>>(a) of one that is a number
ScaleTerms ==
    LET T == {x, y, OpMul(engine, x, y), OpMul(engine, x, x), OpDiv(engine, x, y)}
    IN  T \cup {Quantity(<<>>, t.raw_value) : t \in {u \in T : IsNumber(u)}}

\* x = NAME<decltype(a)>(v)
Prefix ==
    \E a \in ScaleTerms, p \in Scales, v \in LitMags :
        Assign("x", "scale", a, NoValue, p, Scaled(engine, a, p, v))

\* std::cout << a
Render == \E a \in ScaleTerms : Observe("print", a, NoValue, NoValue, Stream(engine, a))

NextScale == LiteralScale \/ Prefix \/ Render

SpecScale == InitScale /\ [][NextScale]_vars

(***************************************************************************)
(* C15. A prefix wrapper (apply_scale) is rejected for every operand that  *)
(* is a compound unit, a single descriptor whose exponent is not 1, or an  *)
(* already-scaled unit (deci<deci<meter>>); it is accepted only for a      *)
(* single descriptor with exponent 1, scale 1/1 and empty prefix.          *)
(***************************************************************************)
IsScaleOfQuantity == last.op = "scale" /\ engine = "BaseUnit" /\ IsQuantity(last.lhs)

C16_ApplyScaleFrame ==
    (IsScaleOfQuantity /\ ~IsRejected(last.out)) =>
        LET d == last.lhs.unit[1]
            R == last.out.unit
        IN  /\ Len(R) = 1
            /\ R[1].scale = RMul(d.scale, last.target.Scalar)
            /\ R[1].prefix = last.target.SYMBOL
            /\ R[1].base_symbol = d.base_symbol
            /\ R[1].exp = 1
            /\ d.exp = 1
            /\ R[1].sub_symbol = d.sub_symbol
            /\ R[1].SubToBase = d.SubToBase
            /\ R[1].BaseToSub = d.BaseToSub
            /\ Stream(engine, last.out).text = " " \o last.target.SYMBOL \o d.sub_symbol

C16_Witness_KiloMile ==
    /\ IsScaleOfQuantity
    /\ last.lhs.unit = mile
    /\ last.target.NAME = "kilo"
    /\ IsQuantity(last.out)
    /\ last.out.unit = <<[mile[1] EXCEPT !.scale = Num(1000), !.prefix = "k"]>>
    /\ x = last.out

(***************************************************************************)
(* C18. Writing a Quantity to a stream gives the magnitude, then, only if  *)
(* the unit is not empty, one space and the symbol expression: for each    *)
(* descriptor in stored order its prefix and display symbol, followed by   *)
(* ^exponent exactly when the exponent is not 1 (negative exponents        *)
(* included), with one '*' between consecutive descriptors and none at the *)
(* ends; a dimensionless Quantity is written as the magnitude alone.       *)
(***************************************************************************)
\* prefix, display symbol and exponent of a descriptor of either engine
SymbolText(d) ==
    (IF "prefix" \in DOMAIN d THEN d.prefix \o d.sub_symbol ELSE d.name)
        \o (IF d.exp = 1 THEN "" ELSE "^" \o ToString(d.exp))

\* the descriptors' texts in stored order, joined by '*'
RECURSIVE Joined(_)
Joined(U) ==
    IF Len(U) = 1 THEN SymbolText(U[1])
    ELSE SymbolText(Head(U)) \o "*" \o Joined(Tail(U))

C18_Witness_Dimensionless ==
    /\ last.op = "print"
    /\ IsQuantity(last.lhs)
    /\ last.lhs.unit = <<>>
    /\ last.out.text = ""

(***************************************************************************)
(* Functions and comparisons. SpecMath: programs that call the             *)
(* trigonometric functions and compare expressions.                        *)
(***************************************************************************)
\* The value std::NAME returns for v.
std_math(NAME, v) == [fn |-> NAME, arg |-> v]

radians == BASE_NOSCALE("rad")

degrees == SUB_NOSCALE("degrees", "rad", "deg")

\* __unithpp_SCALE(milli, m)
milli(Q) == ApplyScale(Q, Norm(1, 1000), "m")

Dim_rad == <<Dim("rad", 1)>>

\* __unithpp_bring_rad_func(NAME) of the BaseUnit engine: the parameter type
\* Quantity<Unit<BaseUnit<"rad", 1, std::ratio<1>, "", SubSymbol, SubToBase,
\* BaseToSub>>, V> and the body std::NAME(radians(q).raw_value)
rad_func(NAME, q) ==
    IF /\ is_single_unit(q.unit)
       /\ base_type(q.unit).base_symbol = "rad"
       /\ base_type(q.unit).exp = 1
       /\ base_type(q.unit).scale = Num(1)
       /\ base_type(q.unit).prefix = ""
    THEN LET r == Construct("BaseUnit", radians, q)
         IN  IF IsRejected(r) THEN r ELSE Number(std_math(NAME, r.raw_value))
    ELSE Rejected("no matching function for call to " \o NAME)

\* Dim engine: Unit::sin, cos, tan for a Quantity of any unit, and
\* defaults::sin, cos, tan for rad; both return a Quantity of the operand's unit
Dim_rad_func(NAME, q) == Quantity(q.unit, std_math(NAME, q.raw_value))

TrigFunctions(e) ==
    IF e = "BaseUnit" THEN {"sin", "cos", "tan", "sinh", "asin"} ELSE {"sin", "cos", "tan"}

\* NAME(q) for a Quantity q
CallTrig(e, NAME, q) ==
    IF e = "BaseUnit" THEN rad_func(NAME, q) ELSE Dim_rad_func(NAME, q)

Bool(b) == [kind |-> "bool", value |-> b]

\* a < b: the built-in comparison of two numbers; struct Quantity declares no
\* comparison operator and no conversion to a number
OpLess(a, b) ==
    IF IsNumber(a) /\ IsNumber(b)
    THEN Bool(a.raw_value[1] * b.raw_value[2] < b.raw_value[1] * a.raw_value[2])
    ELSE Rejected("no match for operator<")

\* a == b
OpEqual(a, b) ==
    IF IsNumber(a) /\ IsNumber(b)
    THEN Bool(a.raw_value = b.raw_value)
    ELSE Rejected("no match for operator==")

\* The literals of SpecMath: 1.0_rad, 90.0_deg, 180.0_deg, 1.0_m and the like.
MathLiterals(e) ==
    {Quantity(c, m) : c \in (IF e = "BaseUnit"
                             THEN {radians, degrees, milli(radians), meter}
                             ELSE {Dim_rad, Dim_meter}),
                      m \in {Num(1), Num(90), Num(180)}}

InitMath ==
    /\ engine \in Engines
    /\ x \in MathLiterals(engine)
    /\ y \in MathLiterals(engine)
    /\ last = Outcome("init", NoValue, NoValue, NoValue, NoValue)

LiteralMath ==
    \E dst \in {"x", "y"}, q \in MathLiterals(engine) :
        /\ x' = IF dst = "x" THEN q ELSE x
        /\ y' = IF dst = "y" THEN q ELSE y
        /\ last' = Outcome("literal", NoValue, NoValue, NoValue, q)
        /\ UNCHANGED engine

\* the expressions of SpecMath: a variable, a product or a quotient of variables
MathTerms == {x, y, OpMul(engine, x, y), OpDiv(engine, x, y)}

\* auto r = NAME(a);
Trig ==
    \E a \in {t \in MathTerms : IsQuantity(t)}, NAME \in TrigFunctions(engine) :
        Observe(NAME, a, NoValue, NoValue, CallTrig(engine, NAME, a))

\* bool r = a < b;  bool r = a == b;
Compare ==
    \E a \in MathTerms, b \in MathTerms :
        \/ Observe("less", a, b, NoValue, OpLess(a, b))
        \/ Observe("equal", a, b, NoValue, OpEqual(a, b))

NextMath == LiteralMath \/ Trig \/ Compare

SpecMath == InitMath /\ [][NextMath]_vars

(***************************************************************************)
(* C17 as stated. In both engines a trigonometric function accepts a       *)
(* Quantity if and only if its unit is exactly one descriptor on the angle *)
(* symbol with exponent 1, whatever its scale, prefix or sub-unit symbol;  *)
(* it converts the operand to unscaled radians and returns the bare number *)
(* the numeric function gives for that value (sin(90 degree) is the sine   *)
(* of pi/2); a Quantity of any other unit is rejected.                     *)
(***************************************************************************)
IsTrigCall == last.op \in TrigFunctions("BaseUnit") /\ IsQuantity(last.lhs)

IsAngleUnit(U) == Len(U) = 1 /\ SymbolOf(U[1]) = "rad" /\ U[1].exp = 1

\* the magnitude of an angle Quantity in unscaled radians
InRadians(q) ==
    IF "scale" \in DOMAIN q.unit[1]
    THEN temp_functions(q.unit[1].SubToBase, RMul(q.unit[1].scale, q.raw_value))
    ELSE q.raw_value

C17_Stated_TrigOnAnglesOnly ==
    IsTrigCall =>
        /\ IsAngleUnit(last.lhs.unit) =>
              last.out = Number(std_math(last.op, InRadians(last.lhs)))
        /\ ~IsAngleUnit(last.lhs.unit) => IsRejected(last.out)

(***************************************************************************)
(* C19 as stated. Comparing two Quantities has the legality of add/sub: it *)
(* is accepted exactly when their units are identical, and then compares   *)
(* their magnitudes, and it is rejected when the units differ.             *)
(***************************************************************************)
C19_Stated_ComparisonLegality ==
    (last.op \in {"less", "equal"} /\ BothQuantities) =>
        /\ last.lhs.unit = last.rhs.unit =>
              last.out = (IF last.op = "less"
                          THEN OpLess(Number(last.lhs.raw_value), Number(last.rhs.raw_value))
                          ELSE OpEqual(Number(last.lhs.raw_value), Number(last.rhs.raw_value)))
        /\ last.lhs.unit # last.rhs.unit => IsRejected(last.out)

(***************************************************************************)
(* C21 as stated. The converting constructor is total on its valid domain: *)
(* for every pair of catalog units that satisfies its precondition (each a *)
(* single descriptor, same base symbol, same exponent) every attribute the *)
(* conversion reads (scale, sub-unit ratio, exponent) is defined by the    *)
(* descriptor, and the conversion produces a value.                        *)
(***************************************************************************)
C21_Stated_ConversionTotal ==
    (ConvertingConstructorChosen /\ ConvertRequires(last.target, last.lhs.unit)) =>
        /\ {"scale", "sub_ratio", "exp"} \subseteq BaseUnitMembers
        /\ IsQuantity(last.out)
        /\ last.out.unit = last.target

(***************************************************************************)
(* C25 as stated. In the Dim engine, writing a Quantity to a stream writes *)
(* its numeric value only, with no unit symbol text after it (5.0_m is     *)
(* written as 5).                                                          *)
(***************************************************************************)
C25_Stated_DimPrintsValueOnly ==
    (engine = "Dim" /\ last.op = "print" /\ IsQuantity(last.lhs)) =>
        last.out = Output(last.lhs.raw_value, "")

(***************************************************************************)
(* C28 as stated. Every sub-unit of the catalog carries the base symbol of *)
(* the base unit it converts to (mile and meter both "m", celsius and      *)
(* kelvin the same symbol), so a sub-unit Quantity and its base-unit       *)
(* Quantity satisfy the same-base-symbol precondition of the converting    *)
(* constructor.                                                            *)
(***************************************************************************)
\* the base unit a sub-unit of the catalog converts to
BaseUnitOfSub(U) ==
    CASE U = mile    -> meter
      [] U = hour    -> second
      [] U = celsius -> kelvin

C28_Stated_SubUnitSharesBaseSymbol ==
    (last.op = "literal" /\ last.out.unit \in {mile, hour, celsius}) =>
        LET SubU == last.out.unit
            BaseU == BaseUnitOfSub(SubU)
        IN  /\ SubU[1].base_symbol = BaseU[1].base_symbol
            /\ ConvertRequires(BaseU, SubU)

(***************************************************************************)
(* Arithmetic with bare numbers, the math functions and, in the Dim        *)
(* engine, the literals with an SI-prefix suffix.                          *)
(***************************************************************************)
OpNeg_SignKept(a) == Quantity(a.unit, a.raw_value)

\* Quantity::operator-() const
OpNeg(a) == Quantity(a.unit, RNeg(a.raw_value))

\* __unithpp_bring_math_func(NAME): NAME(q) calls std::NAME(q.raw_value) with
\* one argument; std::fmod and std::pow have no overload of one argument, so
\* instantiating their wrappers is ill-formed.
bring_math_func(NAME, q) ==
    IF NAME \in {"abs", "log", "log2", "log10", "sqrt", "cbrt"}
    THEN Quantity(q.unit, std_math(NAME, q.raw_value))
    ELSE Rejected("no matching function for call to std::" \o NAME)

\* Dim engine: abs(Quantity<U, V>)
Dim_abs(q) == Quantity(q.unit, std_math("abs", q.raw_value))

\* Dim engine: fmod(Quantity<U, V> q) calls std::fmod(q.value)
Dim_fmod(q) == Rejected("no matching function for call to std::fmod")

\* Dim engine: fmod(Quantity<U, V> v1, Quantity<U, V> v2); U is deduced from
\* both arguments and has to agree
Dim_fmod_2(v1, v2) ==
    IF v1.unit = v2.unit
    THEN Quantity(v1.unit, std_math("fmod", <<v1.raw_value, v2.raw_value>>))
    ELSE Rejected("deduced conflicting types for parameter U")

\* the math functions each engine declares for a Quantity
MathFunctions(e) ==
    IF e = "BaseUnit"
    THEN {"abs", "fmod", "log", "log2", "log10", "pow", "sqrt", "cbrt"}
    ELSE {"abs", "fmod"}

\* auto r = NAME(q);
CallMath(e, NAME, q) ==
    IF e = "BaseUnit" THEN bring_math_func(NAME, q)
    ELSE IF NAME = "abs" THEN Dim_abs(q)
    ELSE IF NAME = "fmod" THEN Dim_fmod(q)
    ELSE Rejected(NAME \o " was not declared")

\* extra::power_of_10 of the Dim engine
RECURSIVE power_of_10(_)
power_of_10(n) ==
    IF n = 0 THEN Num(1)
    ELSE IF n > 0 THEN RMul(power_of_10(n - 1), Num(10))
    ELSE RDiv(power_of_10(n + 1), Num(10))

\* __unithpp_def_op_num(ret, name): x_name is ret{x}
Dim_def_op_num(ret, v) == Quantity(ret, v)

\* __unithpp_def_scale(scale, ret, name_suf, name, sym): scale##ret is an alias
\* of Quantity<Unit<Dim<sym, 1>>>, and the literal x_<name><name_suf> is
\* __unithpp_def_op_num(ret, name##name_suf)
Dim_def_scale(scale, ret, name, v) == Dim_def_op_num(ret, v)

\* the prefixes __unithpp_def_scales passes, two of them
Dim_def_scales == {[scale |-> "kilo", name |-> "k"], [scale |-> "milli", name |-> "m"]}

ArithMags == {Num(-2), Num(1), Num(3)}

ArithScalars == {Num(2), Norm(-1, 2)}

ArithCatalogOf(e) ==
    IF e = "BaseUnit" THEN {meter, second, kilometer} ELSE {Dim_meter, Dim_second}

InitArith ==
    /\ engine \in Engines
    /\ \E c \in ArithCatalogOf(engine), m \in ArithMags : x = Quantity(c, m)
    /\ \E c \in ArithCatalogOf(engine), m \in ArithMags : y = Quantity(c, m)
    /\ last = Outcome("init", NoValue, NoValue, NoValue, NoValue)

\* dst = q; the variables of this program are assigned literals only
Store(dst, op, a, T, q) ==
    /\ x' = IF dst = "x" THEN q ELSE x
    /\ y' = IF dst = "y" THEN q ELSE y
    /\ last' = Outcome(op, a, NoValue, T, q)
    /\ UNCHANGED engine

LiteralArith ==
    \E dst \in {"x", "y"}, c \in ArithCatalogOf(engine), m \in ArithMags :
        Store(dst, "literal", NoValue, NoValue, Quantity(c, m))

\* dst = 1_km; dst = 3_ms (Dim engine)
ScaledLiteral ==
    /\ engine = "Dim"
    /\ \E dst \in {"x", "y"}, p \in Dim_def_scales, ret \in ArithCatalogOf(engine),
          m \in ArithMags :
           Store(dst, "scaled_literal", Number(m), p,
                 Dim_def_scale(p.scale, ret, p.name, m))

\* the Quantity expressions of this program: a variable, x * y or x / y
ArithTerms == {t \in {x, y, OpMul(engine, x, y), OpDiv(engine, x, y)} : IsQuantity(t)}

\* auto r = -a;
Negate == \E a \in ArithTerms : Observe("neg", a, NoValue, NoValue, OpNeg(a))

\* auto r = a + b;
AddArith == \E a \in ArithTerms, b \in ArithTerms : Observe("add", a, b, NoValue, OpAdd(a, b))

\* auto r = a - b;
SubArith == \E a \in ArithTerms, b \in ArithTerms : Observe("sub", a, b, NoValue, OpSub(a, b))

\* auto r = a * k;  auto r = k * a;
ScaleBy ==
    \E a \in ArithTerms, k \in ArithScalars :
        \/ Observe("mul", a, Number(k), NoValue, OpMul(engine, a, Number(k)))
        \/ Observe("mul", Number(k), a, NoValue, OpMul(engine, Number(k), a))

\* auto r = a / k;
UnscaleBy ==
    \E a \in ArithTerms, k \in ArithScalars :
        Observe("div", a, Number(k), NoValue, OpDiv(engine, a, Number(k)))

\* auto r = k / a;
NumberOver ==
    \E a \in ArithTerms, k \in ArithScalars :
        Observe("div", Number(k), a, NoValue, OpDiv(engine, Number(k), a))

\* auto r = NAME(a);
MathFunc ==
    \E a \in ArithTerms, NAME \in MathFunctions(engine) :
        Observe(NAME, a, NoValue, NoValue, CallMath(engine, NAME, a))

\* auto r = fmod(a, b); (Dim engine)
Fmod2 ==
    /\ engine = "Dim"
    /\ \E a \in ArithTerms, b \in ArithTerms :
           Observe("fmod", a, b, NoValue, Dim_fmod_2(a, b))

NextArith ==
    \/ LiteralArith \/ ScaledLiteral \/ Negate \/ AddArith \/ SubArith
    \/ ScaleBy \/ UnscaleBy \/ NumberOver \/ MathFunc \/ Fmod2

SpecArith == InitArith /\ [][NextArith]_vars

(***************************************************************************)
(* C22. Negation, addition, subtraction, multiplication by a bare number   *)
(* (on either side) and division by a bare number each produce a Quantity  *)
(* whose unit is exactly the operand's unit and whose magnitude is -m,     *)
(* m1 + m2, m1 - m2, m * k and m / k; the operands are still the           *)
(* expressions of the program, with the magnitudes they had.               *)
(***************************************************************************)
OperandsKept ==
    /\ IsQuantity(last.lhs) => last.lhs \in ArithTerms
    /\ IsQuantity(last.rhs) => last.rhs \in ArithTerms

C22_ArithmeticFrame ==
    /\ last.op = "neg" =>
          /\ last.out = Quantity(last.lhs.unit, RNeg(last.lhs.raw_value))
          /\ OperandsKept
    /\ (last.op = "add" /\ last.lhs.unit = last.rhs.unit) =>
          /\ last.out = Quantity(last.lhs.unit, RAdd(last.lhs.raw_value, last.rhs.raw_value))
          /\ OperandsKept
    /\ (last.op = "sub" /\ last.lhs.unit = last.rhs.unit) =>
          /\ last.out = Quantity(last.lhs.unit, RSub(last.lhs.raw_value, last.rhs.raw_value))
          /\ OperandsKept
    /\ (last.op = "mul" /\ IsQuantity(last.lhs) /\ IsNumber(last.rhs)) =>
          /\ last.out = Quantity(last.lhs.unit, RMul(last.lhs.raw_value, last.rhs.raw_value))
          /\ OperandsKept
    /\ (last.op = "mul" /\ IsNumber(last.lhs) /\ IsQuantity(last.rhs)) =>
          /\ last.out = Quantity(last.rhs.unit, RMul(last.rhs.raw_value, last.lhs.raw_value))
          /\ OperandsKept
    /\ (last.op = "div" /\ IsQuantity(last.lhs) /\ IsNumber(last.rhs)) =>
          /\ last.out = Quantity(last.lhs.unit, RDiv(last.lhs.raw_value, last.rhs.raw_value))
          /\ OperandsKept

\* -(3.0_km) is -3 km
C22_Witness_NegatedKilometer ==
    /\ last.op = "neg"
    /\ last.lhs = Quantity(kilometer, Num(3))
    /\ last.out = Quantity(kilometer, Num(-3))

(***************************************************************************)
(* C23 as stated. Each math function an engine declares for a Quantity     *)
(* (abs, fmod, log, log2, log10, pow, sqrt, cbrt in the BaseUnit engine;   *)
(* abs and fmod in the Dim engine) accepts a Quantity argument and returns *)
(* a Quantity of exactly the operand's unit whose magnitude is the numeric *)
(* function applied to the operand's magnitude.                            *)
(***************************************************************************)
IsMathCall == last.op \in MathFunctions(engine) /\ last.rhs = NoValue

C23_Stated_MathFunctionsDefined ==
    IsMathCall =>
        last.out = Quantity(last.lhs.unit, std_math(last.op, last.lhs.raw_value))

(***************************************************************************)
(* C24 as stated. In the Dim engine a literal with an SI-prefix suffix is  *)
(* the literal value times the prefix's power of ten in the base unit      *)
(* (1_km is 1000 m, 1_ms is 1/1000 s).                                    *)
(***************************************************************************)
\* the power of ten the SI prefix table gives a prefix symbol
PrefixPower(name) == IF name = "k" THEN 3 ELSE -3

C24_Stated_DimPrefixedLiteralScaled ==
    last.op = "scaled_literal" =>
        /\ IsQuantity(last.out)
        /\ last.out.raw_value =
               RMul(last.lhs.raw_value, power_of_10(PrefixPower(last.target.name)))

(***************************************************************************)
(* C30. Dividing a bare number k by a Quantity q gives a Quantity whose    *)
(* unit has q's descriptors in q's order, each with its exponent negated   *)
(* and everything else unchanged, and whose magnitude is k / m (1 / second *)
(* has the unit second^-1); multiplying a bare number by a Quantity keeps  *)
(* q's unit and gives the magnitude k * m.                                 *)
(***************************************************************************)
NegatedExponents(U) == [i \in DOMAIN U |-> [U[i] EXCEPT !.exp = -U[i].exp]]

C30_NumberOverQuantity ==
    /\ (last.op = "div" /\ IsNumber(last.lhs) /\ IsQuantity(last.rhs)) =>
          last.out = Quantity(NegatedExponents(last.rhs.unit),
                              RDiv(last.lhs.raw_value, last.rhs.raw_value))
    /\ (last.op = "mul" /\ IsNumber(last.lhs) /\ IsQuantity(last.rhs)) =>
          last.out = Quantity(last.rhs.unit,
                              RMul(last.lhs.raw_value, last.rhs.raw_value))

\* 2 / 1.0_s is 2 s^-1
C30_Witness_NumberOverSecond ==
    /\ last.op = "div"
    /\ last.lhs = Number(Num(2))
    /\ last.rhs.unit = (IF engine = "BaseUnit" THEN second ELSE Dim_second)
    /\ last.out.unit = NegatedExponents(last.rhs.unit)
    /\ last.out.unit[1].exp = -1

(***************************************************************************)
(* Mechanics: programs over kilogram, meter and second, or over mile and   *)
(* hour, that keep products and quotients in x, as the force and the speed *)
(* computations of the test program do.                                    *)
(***************************************************************************)
gram == BASE_NOSCALE("g")

kilogram == kilo(gram)

newton == DivideUnits(MultiplyUnits(kilogram, meter), MultiplyUnits(second, second))

\* the units of one program: the SI units of the force computation, or the
\* mile and hour of the speed computation
MechSystems == {{kilogram, meter, second}, {mile, hour}}

\* y holds a literal: the system its unit belongs to
MechSystemOf(q) == CHOOSE S \in MechSystems : q.unit \in S

\* the types a program of this kind can name: one descriptor more than MaxLen
MechFits(v) ==
    /\ Len(UnitOf(v)) <= MaxLen + 1
    /\ \A i \in DOMAIN UnitOf(v) : Abs(UnitOf(v)[i].exp) <= MaxExp

InitMech ==
    /\ engine = "BaseUnit"
    /\ \E S \in MechSystems : InitOver(S)

LiteralMech == \E dst \in {"x", "y"} : LiteralTo(dst, MechSystemOf(y))

\* x = a * b;
MulMech ==
    \E a \in {x, y}, b \in {x, y} :
        /\ MechFits(OpMul(engine, a, b))
        /\ x' = OpMul(engine, a, b)
        /\ last' = Outcome("mul", a, b, NoValue, x')
        /\ UNCHANGED <<engine, y>>

\* x = a / b;
DivMech ==
    \E a \in {x, y}, b \in {x, y} :
        /\ MechFits(OpDiv(engine, a, b))
        /\ x' = OpDiv(engine, a, b)
        /\ last' = Outcome("div", a, b, NoValue, x')
        /\ UNCHANGED <<engine, y>>

\* N force_N(force_raw);
ConstructMech == Observe("construct", x, NoValue, newton, Construct(engine, newton, x))

NextMech == LiteralMech \/ MulMech \/ DivMech \/ ConstructMech

SpecMech == InitMech /\ [][NextMech]_vars

(***************************************************************************)
(* C26. Descriptor order of a product (and of a quotient, with B           *)
(* inverted): the result lists A's descriptors in A's order, each with its *)
(* exponent summed with that of B's descriptor of the same identity and    *)
(* left out when the sum is 0, followed by the descriptors of B that match *)
(* none of A, in B's order. mile / hour is [mile^1, hour^-1].              *)
(***************************************************************************)
SurvivorsThenUnmatched(A, B) ==
    LET summed == [i \in DOMAIN A |->
                      [A[i] EXCEPT !.exp = A[i].exp + ExpOfIdent(B, Ident(A[i]))]]
    IN  SelectSeq(summed, LAMBDA d : d.exp # 0)
            \o SelectSeq(B, LAMBDA d : Ident(d) \notin Idents(A))

C26_DescriptorOrder ==
    (last.op \in {"mul", "div"} /\ BothQuantities) =>
        UnitOf(last.out) =
            SurvivorsThenUnmatched(last.lhs.unit,
                                   IF last.op = "mul" THEN last.rhs.unit
                                   ELSE NegatedExponents(last.rhs.unit))

\* speed = distance / time with distance in mile and time in hour
C26_Witness_MilePerHour ==
    /\ last.op = "div"
    /\ last.lhs.unit = mile
    /\ last.rhs.unit = hour
    /\ last.out.unit = <<mile[1], [hour[1] EXCEPT !.exp = -1]>>

\* (kg m s^-2) / m: the descriptor of B cancels in place, the others stay
C26_Witness_CancelInPlace ==
    /\ last.op = "div"
    /\ BothQuantities
    /\ last.lhs.unit = newton
    /\ last.rhs.unit = meter
    /\ last.out.unit = <<kilogram[1], [second[1] EXCEPT !.exp = -2]>>

(***************************************************************************)
(* C27. The unit of mass * acceleration, with the mass in kilogram and the *)
(* acceleration obtained as (meter / second) / second, is exactly the      *)
(* catalog's newton (kilogram, meter, second^-2 in this order), and        *)
(* constructing a newton from the product copies it: no conversion factor  *)
(* is applied and nothing is rejected.                                     *)
(***************************************************************************)
acceleration == DivideUnits(DivideUnits(meter, second), second)

C27_ForceIsNewton ==
    /\ (last.op = "mul" /\ BothQuantities
            /\ last.lhs.unit = kilogram /\ last.rhs.unit = acceleration) =>
          /\ last.out.unit = newton
          /\ newton = <<kilogram[1], meter[1], [second[1] EXCEPT !.exp = -2]>>
    /\ (last.op = "construct" /\ IsQuantity(last.lhs) /\ last.lhs.unit = newton) =>
          last.out = last.lhs

\* force_raw = mass * acceleration
C27_Witness_MassTimesAcceleration ==
    /\ last.op = "mul"
    /\ BothQuantities
    /\ last.lhs.unit = kilogram
    /\ last.rhs.unit = acceleration
    /\ last.out = Quantity(newton, Num(1))

\* N force_N(force_raw)
C27_Witness_ForceConstructedAsNewton ==
    /\ last.op = "construct"
    /\ IsQuantity(last.lhs)
    /\ last.lhs.unit = <<kilogram[1], meter[1], [second[1] EXCEPT !.exp = -2]>>
    /\ last.out = Quantity(newton, Num(1))

(***************************************************************************)
(* extra::ipow, statement by statement. One call runs from its entry to    *)
(* its return: x is the local `base`, y the local `exp`, and last holds    *)
(* the position in the function, the two arguments and the local `res`.    *)
(***************************************************************************)
MaxPow == 5

\* the bases of the calls: ratios of scales, none of them 0
IpowBases == {Num(2), Num(3), Num(-2), Norm(1, 2)}

\* float_t res = 1.0; on entry
InitIpow ==
    /\ engine = "BaseUnit"
    /\ \E base \in IpowBases, exp \in (-MaxPow)..MaxPow :
           /\ x = Number(base)
           /\ y = Number(Num(exp))
           /\ last = Outcome("ipow_entry", x, y, NoValue, Number(Num(1)))

ipow_step_NoSquare(res, base, exp) ==
    <<IF exp % 2 = 1 THEN RMul(res, base) ELSE res, base, exp \div 2>>

\* if (exp % 2 == 1) res *= base;  base *= base;  exp /= 2;
ipow_step(res, base, exp) ==
    <<IF exp % 2 = 1 THEN RMul(res, base) ELSE res, RMul(base, base), exp \div 2>>

\* if (exp < 0) { base = 1.0 / base; exp = -exp; }
IpowEntry ==
    /\ last.op = "ipow_entry"
    /\ x' = IF y.raw_value[1] < 0 THEN Number(RDiv(Num(1), x.raw_value)) ELSE x
    /\ y' = IF y.raw_value[1] < 0 THEN Number(RNeg(y.raw_value)) ELSE y
    /\ last' = [last EXCEPT !.op = "ipow_while"]
    /\ UNCHANGED engine

\* while (exp > 0) { ... }
IpowIter ==
    /\ last.op = "ipow_while"
    /\ y.raw_value[1] > 0
    /\ LET next == ipow_step(last.out.raw_value, x.raw_value, y.raw_value[1])
       IN  /\ last' = [last EXCEPT !.out = Number(next[1])]
           /\ x' = Number(next[2])
           /\ y' = Number(Num(next[3]))
    /\ UNCHANGED engine

\* return res;
IpowReturn ==
    /\ last.op = "ipow_while"
    /\ ~(y.raw_value[1] > 0)
    /\ last' = [last EXCEPT !.op = "ipow_return"]
    /\ UNCHANGED <<engine, x, y>>

NextIpow == IpowEntry \/ IpowIter \/ IpowReturn

\* one thread runs the call: a statement that can execute does execute
SpecIpow == InitIpow /\ [][NextIpow]_vars /\ WF_vars(NextIpow)

(***************************************************************************)
(* C29. Every call ipow(base, exp) with base # 0 and |exp| <= MaxPow       *)
(* returns, and the value it returns is base^exp: 1 for exp = 0, the       *)
(* product of exp copies of base for exp > 0, and the product of |exp|     *)
(* copies of 1 / base for exp < 0. It is also the value the recursive      *)
(* definition of ipow used by the conversions gives.                       *)
(***************************************************************************)
\* the product of n copies of b
RECURSIVE RepeatedProduct(_, _)
RepeatedProduct(b, n) == IF n = 0 THEN Num(1) ELSE RMul(b, RepeatedProduct(b, n - 1))

IpowReturned == last.op = "ipow_return"

IpowResultIsPower ==
    IpowReturned =>
        LET base == last.lhs.raw_value
            exp == last.rhs.raw_value[1]
        IN  /\ last.out.raw_value =
                  (IF exp < 0 THEN RepeatedProduct(RDiv(Num(1), base), -exp)
                   ELSE RepeatedProduct(base, exp))
            /\ last.out.raw_value = ipow(base, exp)

C29_IpowTerminatesWithPower == <>IpowReturned /\ []IpowResultIsPower

\* ipow(2, -3) has returned 1/8
C29_Witness_TwoToMinusThree ==
    /\ IpowReturned
    /\ last.lhs = Number(Num(2))
    /\ last.rhs = Number(Num(-3))
    /\ last.out = Number(Norm(1, 8))

====
